---- MODULE Spec2Model ----
(***************************************************************************)
(* Pareto-front identification (identify_pareto) of the notebook           *)
(* "Exploring the best possible trade-off between competing objectives".   *)
(* The function is modelled statement by statement: the two nested loops   *)
(* over range(population_size), the dominance test, the flag write and     *)
(* the boolean-mask return.  Indices i, j are zero based as in the code;   *)
(* sequences are one based, so scores[k] of the code is scores[k + 1].     *)
(***************************************************************************)
EXTENDS Integers, Sequences, FiniteSets

\* ---- bounds of the model ----
MaxN == 3        \* largest number of candidates (rows) drawn by Init
MaxM == 2        \* largest number of objectives (columns) drawn by Init
MaxScore == 1    \* scores are drawn from 0..MaxScore
MaxNaNRows == 2  \* largest number of rows of the tables that hold a NaN
MaxWorkers == 2  \* number of workers the candidates are partitioned across
MaxCells == 6      \* largest number of scores (rows times columns) of a sized table
MaxCellScore == 1  \* largest score of a sized table
MaxOrderM == 2     \* objectives of the tables the order properties are checked on
MaxOrderScore == 1 \* largest score of those tables
MaxChromosome == 2   \* largest chromosome_length drawn by the GA's Init
MaxPopulation == 3   \* largest population_size drawn by the GA's Init
MaxGeneration == 2   \* largest maximum_generation drawn by the GA's Init
MaxGeneLength == 2      \* largest chromosome_length of the gene-preservation runs
MaxGenePopulation == 2  \* largest population_size of the gene-preservation runs
MaxGeneGenerations == 1 \* largest maximum_generation of the gene-preservation runs
MaxTournamentSize == 2  \* largest population handed to a tournament
MaxSamples == 3   \* largest test set of the threshold runs
MaxEpisodeSteps == 2  \* most steps the environment takes to end an episode
MaxBatchSteps == 3    \* most steps recorded in a batch handed to filter_episodes
MaxEpisodeReward == 1 \* episode rewards are 0..MaxEpisodeReward
MaxLevel == 2     \* probabilities and thresholds are the levels 0..MaxLevel of [0, 1]
MaxTournamentScore == 1 \* largest score handed to a tournament
MaxParentLength == 3    \* longest parents handed to the crossover
MaxMutationRows == 2    \* largest population handed to the mutation

VARIABLES
    scores,           \* the argument of identify_pareto: a sequence of rows
    population_size,  \* local: scores.shape[0]
    population_ids,   \* local: np.arange(population_size)
    pareto_front,     \* local: the membership flags
    i, j,             \* loop indices of the outer and inner for loops
    pc,               \* position in the function
    result,           \* the returned array of indices
    outcome,          \* "none" while running, "returned", or the exception raised
    run,              \* 1: the call on the table, 2: the call on the permuted table
    perm,             \* the permutation applied before run 2 (old index -> new index)
    first_result      \* the result of run 1, kept for comparison with run 2

\* the candidates partitioned across workers, each worker filling in the flags
\* of its own candidates
VARIABLES
    owner,            \* the worker each candidate is assigned to
    w_pc,             \* per worker: position in its loop
    w_i, w_j,         \* per worker: its outer and inner loop indices
    par_front,        \* the flag array shared by the workers
    writers           \* per candidate: the workers that have written its flag

pareto_vars == <<scores, population_size, population_ids, pareto_front, i, j, pc,
                 result, outcome, run, perm, first_result>>

par_vars == <<owner, w_pc, w_i, w_j, par_front, writers>>

\* the genetic algorithm notebook: its globals, and the locals of its functions
VARIABLES
    chromosome_length,     \* general parameter
    ga_population_size,    \* general parameter population_size
    maximum_generation,    \* general parameter
    reference,             \* the solution to hunt down
    population,            \* the current population, one row per individual
    ga_scores,             \* scores: the fitness of each individual
    generation,            \* index of the generation loop
    new_population,        \* the list of children of the generation under way
    ga_i,                  \* index i of the child-generation loop
    ga_pc,                 \* position in the notebook cell
    parent_1, parent_2,    \* the rows picked by the two tournaments
    child_1, child_2,      \* the rows returned by breed_by_crossover
    crossover_point,       \* local of breed_by_crossover
    fighter_1, fighter_2,  \* locals of select_individual_by_tournament
    winner,                \* local of select_individual_by_tournament
    mutation_probability,  \* argument of randomly_mutate_population, in 1/Scale
    before_mutation        \* the population as it was passed to the mutation

\* the parallel-processing notebook
VARIABLES
    seq_output,       \* trial_output of the sequential cell
    seq_i,            \* index of the list comprehension
    task_state,       \* per task of the Parallel call: pending, running or finished
    task_result,      \* per task: the value its worker returned
    completed,        \* the task indices in the order the tasks finished
    par_output,       \* trial_output of the Parallel cell
    job_pc            \* position in the notebook

\* the logistic-regression notebook and the reinforcement-learning notebook:
\* each notebook's variables are the fields of one record
VARIABLES
    clf,   \* thresholds, probabilities, y_test, the predictions and results so far
    rl     \* the batch, the filter's arguments and results, the counters of main()

nb_vars == <<clf, rl>>

ga_vars == <<chromosome_length, ga_population_size, maximum_generation, reference,
             population, ga_scores, generation, new_population, ga_i, ga_pc,
             parent_1, parent_2, child_1, child_2, crossover_point,
             fighter_1, fighter_2, winner, mutation_probability, before_mutation>>

job_vars == <<seq_output, seq_i, task_state, task_result, completed, par_output,
              job_pc>>

\* everything outside the logistic-regression notebook
non_clf_vars == <<pareto_vars, par_vars, ga_vars, job_vars, rl>>

\* everything outside the reinforcement-learning notebook
non_rl_vars == <<pareto_vars, par_vars, ga_vars, job_vars, clf>>

non_pareto_vars == <<par_vars, ga_vars, job_vars, nb_vars>>

\* everything outside the genetic algorithm notebook
non_ga_vars == <<pareto_vars, par_vars, job_vars, nb_vars>>

\* everything outside the parallel-processing notebook
non_job_vars == <<pareto_vars, par_vars, ga_vars, nb_vars>>

vars == <<pareto_vars, par_vars, ga_vars, job_vars, nb_vars>>

\* ---- the notebook's table of dummy data ----
ExampleScores ==
    << <<97, 23>>, <<55, 77>>, <<34, 76>>, <<80, 60>>, <<99, 4>>,
       <<81, 5>>, <<5, 81>>, <<30, 79>>, <<15, 80>>, <<70, 65>>,
       <<90, 40>>, <<40, 30>>, <<30, 40>>, <<20, 60>>, <<60, 50>>,
       <<20, 20>>, <<30, 1>>, <<60, 40>>, <<70, 25>>, <<44, 62>>,
       <<55, 55>>, <<55, 10>>, <<15, 45>>, <<83, 22>>, <<76, 46>>,
       <<56, 32>>, <<45, 55>>, <<10, 70>>, <<10, 30>>, <<79, 50>> >>

\* ---- NumPy / Python primitives used by the function ----

\* np.arange(n): the array 0, 1, ..., n-1
ArangeOneBased(n) == [k \in 1..n |-> k]
Arange(n) == [k \in 1..n |-> k - 1]

\* np.ones(n, dtype=bool)
Ones(n) == [k \in 1..n |-> TRUE]

\* membership of k in range(n)
InRangeInclusive(k, n) == k >= 0 /\ k <= n
InRange(k, n) == k >= 0 /\ k < n

\* the float NaN, kept apart from the scores 0..MaxScore
NaN == -1

\* x >= y and x > y on floats: every comparison with NaN is False
FloatGEOrdered(x, y) == x >= y
FloatGE(x, y) == x # NaN /\ y # NaN /\ x >= y
FloatGT(x, y) == x # NaN /\ y # NaN /\ x > y

\* a >= b and a > b on arrays: elementwise, giving a boolean array
GreaterEqual(a, b) == [k \in 1..Len(a) |-> FloatGE(a[k], b[k])]
Greater(a, b) == [k \in 1..Len(a) |-> FloatGT(a[k], b[k])]

\* Python's all() and any() over a boolean array
All(v) == \A k \in 1..Len(v) : v[k]
Any(v) == \E k \in 1..Len(v) : v[k]

\* the test of line 122 with sj = scores[j] and si = scores[i]
DominatesNoStrict(sj, si) == All(GreaterEqual(sj, si))
DominatesAllStrict(sj, si) == All(Greater(sj, si))
Dominates(sj, si) == All(GreaterEqual(sj, si)) /\ Any(Greater(sj, si))

\* the subscript of the write pareto_front[i] = 0
WrittenIndexJ(ii, jj) == jj
WrittenIndex(ii, jj) == ii

\* pareto_front[i] = 0
ClearFlagAtJ(flags, ii, jj) == [flags EXCEPT ![jj + 1] = FALSE]
ClearFlag(flags, ii, jj) == [flags EXCEPT ![WrittenIndex(ii, jj) + 1] = FALSE]

\* population_ids[pareto_front]: boolean-mask indexing keeps, in order, the
\* entries whose flag is set
RECURSIVE MaskFrom(_, _, _)
MaskFrom(ids, flags, k) ==
    IF k > Len(ids) THEN <<>>
    ELSE (IF flags[k] THEN <<ids[k]>> ELSE <<>>) \o MaskFrom(ids, flags, k + 1)

BooleanIndexUnmasked(ids, flags) == ids
BooleanIndex(ids, flags) == MaskFrom(ids, flags, 1)

\* scores[k] raises IndexError unless 0 <= k < len(scores)
ValidIndex(s, k) == k >= 0 /\ k < Len(s)

\* ---- initial states ----

Tables == UNION { [1..n -> [1..m -> 0..MaxScore]] : n \in 0..MaxN, m \in 1..MaxM }

InitLocals ==
    /\ population_size = 0
    /\ population_ids = <<>>
    /\ pareto_front = <<>>
    /\ i = 0
    /\ j = 0
    /\ pc = "call"
    /\ result = <<>>
    /\ outcome = "none"
    /\ run = 1
    /\ perm = <<>>
    /\ first_result = <<>>

\* no workers have been started
ParIdle ==
    /\ owner = <<>>
    /\ w_pc = <<>>
    /\ w_i = <<>>
    /\ w_j = <<>>
    /\ par_front = <<>>
    /\ writers = <<>>

\* the genetic algorithm notebook has not been run
GaIdle ==
    /\ chromosome_length = 0
    /\ ga_population_size = 0
    /\ maximum_generation = 0
    /\ reference = <<>>
    /\ population = <<>>
    /\ ga_scores = <<>>
    /\ generation = 0
    /\ new_population = <<>>
    /\ ga_i = 0
    /\ ga_pc = "idle"
    /\ parent_1 = <<>>
    /\ parent_2 = <<>>
    /\ child_1 = <<>>
    /\ child_2 = <<>>
    /\ crossover_point = 0
    /\ fighter_1 = 0
    /\ fighter_2 = 0
    /\ winner = 0
    /\ mutation_probability = 0
    /\ before_mutation = <<>>

\* the parallel-processing notebook has not been run
JobIdle ==
    /\ seq_output = <<>>
    /\ seq_i = 0
    /\ task_state = <<>>
    /\ task_result = <<>>
    /\ completed = <<>>
    /\ par_output = <<>>
    /\ job_pc = "idle"

\* the logistic-regression notebook has not been run
ClfIdle == clf = [pc |-> "idle"]

\* the reinforcement-learning notebook has not been run
RlIdle == rl = [pc |-> "idle"]

\* identify_pareto has not been called
ParetoIdle == scores = <<>> /\ InitLocals /\ ParIdle

Init == scores \in Tables /\ InitLocals /\ ParIdle /\ GaIdle /\ JobIdle
    /\ ClfIdle /\ RlIdle

InitExample == scores = ExampleScores /\ InitLocals /\ ParIdle /\ GaIdle /\ JobIdle
    /\ ClfIdle /\ RlIdle

\* float tables with at least one NaN entry
NaNTables ==
    { t \in UNION { [1..n -> [1..m -> (0..MaxScore) \cup {NaN}]] :
                        n \in 1..MaxNaNRows, m \in 1..MaxM } :
        \E r \in 1..Len(t) : \E c \in 1..Len(t[r]) : t[r][c] = NaN }

InitNaN == scores \in NaNTables /\ InitLocals /\ ParIdle /\ GaIdle /\ JobIdle
    /\ ClfIdle /\ RlIdle

\* tables of three candidates: every triple of score vectors within the bounds
OrderTables ==
    UNION { [1..3 -> [1..m -> 0..MaxOrderScore]] : m \in 1..MaxOrderM }

InitOrder == scores \in OrderTables /\ InitLocals /\ ParIdle /\ GaIdle /\ JobIdle
    /\ ClfIdle /\ RlIdle

\* tables of every shape that holds at most MaxCells scores
CellTables ==
    UNION { IF n * m <= MaxCells THEN [1..n -> [1..m -> 0..MaxCellScore]] ELSE {} :
                n \in 0..MaxCells, m \in 1..MaxCells }

InitCells == scores \in CellTables /\ InitLocals /\ ParIdle /\ GaIdle /\ JobIdle
    /\ ClfIdle /\ RlIdle

\* ---- the steps of identify_pareto ----

\* lines 111-116: count the items, build the ids and the flags
Call ==
    /\ pc = "call"
    /\ population_size' = Len(scores)
    /\ population_ids' = Arange(Len(scores))
    /\ pareto_front' = Ones(Len(scores))
    /\ i' = 0
    /\ pc' = "outer"
    /\ UNCHANGED <<scores, j, result, outcome, run, perm, first_result>>
    /\ UNCHANGED non_pareto_vars

\* line 118: for i in range(population_size), next item available;
\* line 120: the inner loop starts at j = 0
OuterEnter ==
    /\ pc = "outer"
    /\ InRange(i, population_size)
    /\ j' = 0
    /\ pc' = "inner"
    /\ UNCHANGED <<scores, population_size, population_ids, pareto_front, i,
                   result, outcome, run, perm, first_result>>
    /\ UNCHANGED non_pareto_vars

\* line 118: the outer loop is exhausted
OuterExit ==
    /\ pc = "outer"
    /\ ~InRange(i, population_size)
    /\ pc' = "return"
    /\ UNCHANGED <<scores, population_size, population_ids, pareto_front, i, j,
                   result, outcome, run, perm, first_result>>
    /\ UNCHANGED non_pareto_vars

\* lines 120-126 with the write of line 124 landing in the input table
InnerCompareWritesScores ==
    /\ pc = "inner"
    /\ InRange(j, population_size)
    /\ IF ~(ValidIndex(scores, j) /\ ValidIndex(scores, i))
       THEN /\ outcome' = "IndexError"
            /\ pc' = "done"
            /\ UNCHANGED <<scores, pareto_front, i, j>>
       ELSE IF Dominates(scores[j + 1], scores[i + 1])
       THEN /\ scores' = [scores EXCEPT ![i + 1] = [k \in 1..Len(scores[i + 1]) |-> 0]]
            /\ pareto_front' = ClearFlag(pareto_front, i, j)
            /\ i' = i + 1
            /\ pc' = "outer"
            /\ UNCHANGED <<j, outcome>>
       ELSE /\ j' = j + 1
            /\ UNCHANGED <<scores, pareto_front, i, pc, outcome>>
    /\ UNCHANGED <<population_size, population_ids, result, run, perm,
                   first_result>>
    /\ UNCHANGED non_pareto_vars

\* lines 120-126: one pass of the inner loop body
InnerCompare ==
    /\ pc = "inner"
    /\ InRange(j, population_size)
    /\ IF ~(ValidIndex(scores, j) /\ ValidIndex(scores, i))
       THEN /\ outcome' = "IndexError"
            /\ pc' = "done"
            /\ UNCHANGED <<pareto_front, i, j>>
       ELSE IF Dominates(scores[j + 1], scores[i + 1])
       THEN \* j dominates i: clear the flag of i and break
            /\ pareto_front' = ClearFlag(pareto_front, i, j)
            /\ i' = i + 1
            /\ pc' = "outer"
            /\ UNCHANGED <<j, outcome>>
       ELSE /\ j' = j + 1
            /\ UNCHANGED <<pareto_front, i, pc, outcome>>
    /\ UNCHANGED <<scores, population_size, population_ids, result, run, perm,
                   first_result>>
    /\ UNCHANGED non_pareto_vars

\* line 120: the inner loop is exhausted without a break
InnerExhausted ==
    /\ pc = "inner"
    /\ ~InRange(j, population_size)
    /\ i' = i + 1
    /\ pc' = "outer"
    /\ UNCHANGED <<scores, population_size, population_ids, pareto_front, j,
                   result, outcome, run, perm, first_result>>
    /\ UNCHANGED non_pareto_vars

\* line 128: return population_ids[pareto_front]
Return ==
    /\ pc = "return"
    /\ result' = BooleanIndex(population_ids, pareto_front)
    /\ outcome' = "returned"
    /\ pc' = "done"
    /\ UNCHANGED <<scores, population_size, population_ids, pareto_front, i, j,
                   run, perm, first_result>>
    /\ UNCHANGED non_pareto_vars

\* ---- the caller re-running the function on the rows in another order ----

Perms(n) == { p \in [0..(n - 1) -> 0..(n - 1)] :
                \A a, b \in 0..(n - 1) : a # b => p[a] # p[b] }

\* the row at old index x moves to new index p[x]
PermuteRows(s, p) ==
    [k \in 1..Len(s) |-> s[(CHOOSE x \in DOMAIN p : p[x] = k - 1) + 1]]

Rerun ==
    /\ pc = "done"
    /\ run = 1
    /\ outcome = "returned"
    /\ \E p \in Perms(Len(scores)) :
          /\ perm' = p
          /\ scores' = PermuteRows(scores, p)
    /\ first_result' = result
    /\ run' = 2
    /\ population_size' = 0
    /\ population_ids' = <<>>
    /\ pareto_front' = <<>>
    /\ i' = 0
    /\ j' = 0
    /\ result' = <<>>
    /\ outcome' = "none"
    /\ pc' = "call"
    /\ UNCHANGED non_pareto_vars

\* identify_pareto called once on a table
Next == Call \/ OuterEnter \/ OuterExit \/ InnerCompare \/ InnerExhausted \/ Return

Spec == Init /\ [][Next]_vars

\* identify_pareto called on a table and then on the same rows in another order
NextPermuted ==
    Call \/ OuterEnter \/ OuterExit \/ InnerCompare \/ InnerExhausted \/ Return \/ Rerun

SpecPermuted == Init /\ [][NextPermuted]_vars

\* identify_pareto called on the notebook's table
NextExample == Call \/ OuterEnter \/ OuterExit \/ InnerCompare \/ InnerExhausted \/ Return

SpecExample == InitExample /\ [][NextExample]_vars

\* identify_pareto called on a float table that holds a NaN
NextNaN == Call \/ OuterEnter \/ OuterExit \/ InnerCompare \/ InnerExhausted \/ Return

SpecNaN == InitNaN /\ [][NextNaN]_vars

\* identify_pareto called on every table of three candidates
NextOrder == Call \/ OuterEnter \/ OuterExit \/ InnerCompare \/ InnerExhausted \/ Return

SpecOrder == InitOrder /\ [][NextOrder]_vars

\* identify_pareto called on every table of at most MaxCells scores
NextCells == Call \/ OuterEnter \/ OuterExit \/ InnerCompare \/ InnerExhausted \/ Return

SpecCells == InitCells /\ [][NextCells]_vars

\* scores[pareto]: indexing with an integer array takes the listed rows, in order
TakeRows(s, ids) == [k \in 1..Len(ids) |-> s[ids[k] + 1]]

\* the function applied again, to scores[pareto], the rows it returned
Reapply ==
    /\ pc = "done"
    /\ run = 1
    /\ outcome = "returned"
    /\ scores' = TakeRows(scores, result)
    /\ first_result' = result
    /\ run' = 2
    /\ population_size' = 0
    /\ population_ids' = <<>>
    /\ pareto_front' = <<>>
    /\ i' = 0
    /\ j' = 0
    /\ result' = <<>>
    /\ outcome' = "none"
    /\ pc' = "call"
    /\ UNCHANGED perm
    /\ UNCHANGED non_pareto_vars

NextReapplied ==
    Call \/ OuterEnter \/ OuterExit \/ InnerCompare \/ InnerExhausted \/ Return \/ Reapply

SpecReapplied == InitCells /\ [][NextReapplied]_vars

\* ---- the outer loop partitioned across workers ----

Workers == 1..MaxWorkers

\* the first candidate at or after k that is assigned to worker w, or the item
\* count when there is none
NextOwned(o, w, k) ==
    IF \E x \in k..(Len(scores) - 1) : o[x] = w
    THEN CHOOSE x \in k..(Len(scores) - 1) :
            o[x] = w /\ \A y \in k..(x - 1) : o[y] # w
    ELSE Len(scores)

\* the candidates are assigned to the workers; every flag starts set
ParStart ==
    /\ pc = "done"
    /\ outcome = "returned"
    /\ w_pc = <<>>
    /\ \E o \in [0..(Len(scores) - 1) -> Workers] :
          /\ owner' = o
          /\ w_i' = [w \in Workers |-> NextOwned(o, w, 0)]
    /\ w_pc' = [w \in Workers |-> "outer"]
    /\ w_j' = [w \in Workers |-> 0]
    /\ par_front' = Ones(Len(scores))
    /\ writers' = [k \in 0..(Len(scores) - 1) |-> {}]
    /\ UNCHANGED <<pareto_vars, ga_vars, job_vars, nb_vars>>

\* line 118 in worker w: its next candidate; line 120: the inner loop starts
WOuterEnter(w) ==
    /\ w_pc # <<>>
    /\ w_pc[w] = "outer"
    /\ InRange(w_i[w], Len(scores))
    /\ w_j' = [w_j EXCEPT ![w] = 0]
    /\ w_pc' = [w_pc EXCEPT ![w] = "inner"]
    /\ UNCHANGED <<owner, w_i, par_front, writers>>
    /\ UNCHANGED <<pareto_vars, ga_vars, job_vars, nb_vars>>

\* line 118 in worker w: no candidate of its own is left
WOuterExit(w) ==
    /\ w_pc # <<>>
    /\ w_pc[w] = "outer"
    /\ ~InRange(w_i[w], Len(scores))
    /\ w_pc' = [w_pc EXCEPT ![w] = "finished"]
    /\ UNCHANGED <<owner, w_i, w_j, par_front, writers>>
    /\ UNCHANGED <<pareto_vars, ga_vars, job_vars, nb_vars>>

\* lines 120-126 in worker w: one pass of the inner loop body, no lock taken
WInnerCompare(w) ==
    /\ w_pc # <<>>
    /\ w_pc[w] = "inner"
    /\ InRange(w_j[w], Len(scores))
    /\ IF Dominates(scores[w_j[w] + 1], scores[w_i[w] + 1])
       THEN /\ par_front' = ClearFlag(par_front, w_i[w], w_j[w])
            /\ writers' = [writers EXCEPT ![WrittenIndex(w_i[w], w_j[w])] = @ \cup {w}]
            /\ w_i' = [w_i EXCEPT ![w] = NextOwned(owner, w, w_i[w] + 1)]
            /\ w_pc' = [w_pc EXCEPT ![w] = "outer"]
            /\ UNCHANGED w_j
       ELSE /\ w_j' = [w_j EXCEPT ![w] = w_j[w] + 1]
            /\ UNCHANGED <<par_front, writers, w_i, w_pc>>
    /\ UNCHANGED owner
    /\ UNCHANGED <<pareto_vars, ga_vars, job_vars, nb_vars>>

\* line 120 in worker w: the inner loop is exhausted without a break
WInnerExhausted(w) ==
    /\ w_pc # <<>>
    /\ w_pc[w] = "inner"
    /\ ~InRange(w_j[w], Len(scores))
    /\ w_i' = [w_i EXCEPT ![w] = NextOwned(owner, w, w_i[w] + 1)]
    /\ w_pc' = [w_pc EXCEPT ![w] = "outer"]
    /\ UNCHANGED <<owner, w_j, par_front, writers>>
    /\ UNCHANGED <<pareto_vars, ga_vars, job_vars, nb_vars>>

\* identify_pareto called on a table, then the same table filtered by workers
NextParallel ==
    \/ Call \/ OuterEnter \/ OuterExit \/ InnerCompare \/ InnerExhausted \/ Return
    \/ ParStart
    \/ \E w \in Workers : WOuterEnter(w)
    \/ \E w \in Workers : WOuterExit(w)
    \/ \E w \in Workers : WInnerCompare(w)
    \/ \E w \in Workers : WInnerExhausted(w)

SpecParallel == Init /\ [][NextParallel]_vars

\* ---- the genetic algorithm notebook ----

\* probabilities and random floats are counted in thousandths
Scale == 1000

\* mutation_rate = 0.002 of the generation loop
MutationRate == 2

\* the floats np.random.random can return lie in [0, 1): the smallest and the
\* largest of them at this resolution
RandomSample == {0, Scale - 1}

\* random.randint(a, b): both ends included
RandInt(a, b) == a..b

\* the binary rows of a given length
Rows(len) == [1..len -> {0, 1}]

CountOnes(r) == Cardinality({ k \in 1..Len(r) : r[k] = 1 })

\* create_reference_solution: int(chromosome_length / 2) ones, shuffled
References(len) == { r \in Rows(len) : CountOnes(r) = len \div 2 }

\* one row of create_starting_population: a random number of ones, shuffled
StartingRows(len) ==
    { r \in Rows(len) : \E ones \in RandInt(0, len) : CountOnes(r) = ones }

\* calculate_fitness: per row, the number of genes identical to the reference
CalculateFitnessOnes(ref, pop) ==
    [r \in 1..Len(pop) |->
        Cardinality({ c \in 1..Len(pop[r]) : pop[r][c] = 1 })]
CalculateFitness(ref, pop) ==
    [r \in 1..Len(pop) |->
        Cardinality({ c \in 1..Len(pop[r]) : pop[r][c] = ref[c] })]

\* select_individual_by_tournament, lines 264-267: fighter 1 wins a draw
TournamentWinnerStrict(sc, f1, f2) == IF sc[f1 + 1] > sc[f2 + 1] THEN f1 ELSE f2
TournamentWinner(sc, f1, f2) == IF sc[f1 + 1] >= sc[f2 + 1] THEN f1 ELSE f2

\* select_individual_by_tournament, line 270: the chromosome of the winner
SelectedRow(pop, sc, f1, f2) == pop[TournamentWinner(sc, f1, f2) + 1]

\* breed_by_crossover, line 329: the crossover points, avoiding the ends
CrossoverPointsFromZero(len) == RandInt(0, len - 1)
CrossoverPoints(len) == RandInt(1, len - 1)

\* the slices a[0:c] and a[c:]
SliceTo(a, c) == SubSeq(a, 1, c)
SliceFrom(a, c) == SubSeq(a, c + 1, Len(a))

\* np.hstack of two one-dimensional arrays
HStack(a, b) == a \o b

\* breed_by_crossover, lines 332-336
Child(p, q, c) == HStack(SliceTo(p, c), SliceFrom(q, c))

\* randomly_mutate_population, lines 412-413: the genes to mutate
MutationMaskAbove(rnd, p) ==
    [r \in 1..Len(rnd) |-> [c \in 1..Len(rnd[r]) |-> rnd[r][c] >= p]]
MutationMask(rnd, p) ==
    [r \in 1..Len(rnd) |-> [c \in 1..Len(rnd[r]) |-> rnd[r][c] <= p]]

\* np.logical_not on a float, and the boolean stored back into a float array
LogicalNot(x) == x = 0
BoolAsFloat(b) == IF b THEN 1 ELSE 0

\* randomly_mutate_population, lines 415-416
Mutated(pop, mask) ==
    [r \in 1..Len(pop) |->
        [c \in 1..Len(pop[r]) |->
            IF mask[r][c] THEN BoolAsFloat(LogicalNot(pop[r][c])) ELSE pop[r][c]]]

\* np.random.random(size=population.shape)
RandomArrays(pop) ==
    IF Len(pop) = 0 THEN {<<>>}
    ELSE [1..Len(pop) -> [1..Len(pop[1]) -> RandomSample]]

\* int(population_size / 2)
IntHalf(n) == n \div 2

\* the function locals that are not kept between calls
GaLocalsIdle ==
    /\ crossover_point = 0
    /\ fighter_1 = 0
    /\ fighter_2 = 0
    /\ winner = 0

InitGA ==
    /\ ParetoIdle
    /\ JobIdle
    /\ ClfIdle
    /\ RlIdle
    /\ chromosome_length \in 2..MaxChromosome
    /\ ga_population_size \in 2..MaxPopulation
    /\ maximum_generation \in 1..MaxGeneration
    /\ reference = <<>>
    /\ population = <<>>
    /\ ga_scores = <<>>
    /\ generation = 0
    /\ new_population = <<>>
    /\ ga_i = 0
    /\ ga_pc = "setup"
    /\ parent_1 = <<>>
    /\ parent_2 = <<>>
    /\ child_1 = <<>>
    /\ child_2 = <<>>
    /\ GaLocalsIdle
    /\ mutation_probability = 0
    /\ before_mutation = <<>>

\* lines 514-525: reference solution, starting population and its scores
GaSetup ==
    /\ ga_pc = "setup"
    /\ reference' \in References(chromosome_length)
    /\ population' \in [1..ga_population_size -> StartingRows(chromosome_length)]
    /\ ga_scores' = CalculateFitness(reference', population')
    /\ ga_pc' = "loop"
    /\ UNCHANGED <<chromosome_length, ga_population_size, maximum_generation,
                   generation, new_population, ga_i, parent_1, parent_2, child_1,
                   child_2, crossover_point, fighter_1, fighter_2, winner,
                   mutation_probability, before_mutation>>
    /\ UNCHANGED non_ga_vars

\* lines 528-530: the next generation starts with an empty list of children
GenBegin ==
    /\ ga_pc = "loop"
    /\ InRange(generation, maximum_generation)
    /\ new_population' = <<>>
    /\ ga_i' = 0
    /\ ga_pc' = "breed"
    /\ UNCHANGED <<chromosome_length, ga_population_size, maximum_generation,
                   reference, population, ga_scores, generation, parent_1,
                   parent_2, child_1, child_2, crossover_point, fighter_1,
                   fighter_2, winner, mutation_probability, before_mutation>>
    /\ UNCHANGED non_ga_vars

\* lines 528, 553: the required generations have been run
GenLoopExit ==
    /\ ga_pc = "loop"
    /\ ~InRange(generation, maximum_generation)
    /\ ga_pc' = "finished"
    /\ UNCHANGED <<chromosome_length, ga_population_size, maximum_generation,
                   reference, population, ga_scores, generation, new_population,
                   ga_i, parent_1, parent_2, child_1, child_2, crossover_point,
                   fighter_1, fighter_2, winner, mutation_probability,
                   before_mutation>>
    /\ UNCHANGED non_ga_vars

\* lines 533-538: two tournaments, one crossover, two children appended
Breed ==
    /\ ga_pc = "breed"
    /\ InRange(ga_i, IntHalf(ga_population_size))
    /\ \E f1, f2, g1, g2 \in RandInt(0, Len(ga_scores) - 1) :
          LET p1 == SelectedRow(population, ga_scores, f1, f2)
              p2 == SelectedRow(population, ga_scores, g1, g2)
          IN \E c \in CrossoverPoints(Len(p1)) :
                /\ parent_1' = p1
                /\ parent_2' = p2
                /\ child_1' = Child(p1, p2, c)
                /\ child_2' = Child(p2, p1, c)
                /\ new_population' =
                       Append(Append(new_population, Child(p1, p2, c)), Child(p2, p1, c))
    /\ ga_i' = ga_i + 1
    /\ UNCHANGED <<chromosome_length, ga_population_size, maximum_generation,
                   reference, population, ga_scores, generation, ga_pc,
                   crossover_point, fighter_1, fighter_2, winner,
                   mutation_probability, before_mutation>>
    /\ UNCHANGED non_ga_vars

\* lines 533, 541-550: the children replace the population, are mutated in
\* place and scored
GenEnd ==
    /\ ga_pc = "breed"
    /\ ~InRange(ga_i, IntHalf(ga_population_size))
    /\ mutation_probability' = MutationRate
    /\ before_mutation' = new_population
    /\ \E rnd \in RandomArrays(new_population) :
          population' = Mutated(new_population, MutationMask(rnd, MutationRate))
    /\ ga_scores' = CalculateFitness(reference, population')
    /\ generation' = generation + 1
    /\ ga_pc' = "loop"
    /\ UNCHANGED <<chromosome_length, ga_population_size, maximum_generation,
                   reference, new_population, ga_i, parent_1, parent_2, child_1,
                   child_2, crossover_point, fighter_1, fighter_2, winner>>
    /\ UNCHANGED non_ga_vars

NextGA == GaSetup \/ GenBegin \/ GenLoopExit \/ Breed \/ GenEnd

SpecGA == InitGA /\ [][NextGA]_vars

\* the generation loop on the smaller parameters the gene-preservation
\* property is followed on
InitGenes ==
    /\ ParetoIdle
    /\ JobIdle
    /\ ClfIdle
    /\ RlIdle
    /\ chromosome_length \in 2..MaxGeneLength
    /\ ga_population_size \in 2..MaxGenePopulation
    /\ maximum_generation \in 1..MaxGeneGenerations
    /\ reference = <<>>
    /\ population = <<>>
    /\ ga_scores = <<>>
    /\ generation = 0
    /\ new_population = <<>>
    /\ ga_i = 0
    /\ ga_pc = "setup"
    /\ parent_1 = <<>>
    /\ parent_2 = <<>>
    /\ child_1 = <<>>
    /\ child_2 = <<>>
    /\ GaLocalsIdle
    /\ mutation_probability = 0
    /\ before_mutation = <<>>

NextGenes == GaSetup \/ GenBegin \/ GenLoopExit \/ Breed \/ GenEnd

SpecGenes == InitGenes /\ [][NextGenes]_vars

\* ---- select_individual_by_tournament on its own ----

InitTournament ==
    /\ ParetoIdle
    /\ JobIdle
    /\ ClfIdle
    /\ RlIdle
    /\ chromosome_length \in 2..MaxChromosome
    /\ ga_population_size \in 1..MaxTournamentSize
    /\ maximum_generation = 0
    /\ reference = <<>>
    /\ population \in [1..ga_population_size -> Rows(chromosome_length)]
    /\ ga_scores \in [1..ga_population_size -> 0..MaxTournamentScore]
    /\ generation = 0
    /\ new_population = <<>>
    /\ ga_i = 0
    /\ ga_pc = "tournament"
    /\ parent_1 = <<>>
    /\ parent_2 = <<>>
    /\ child_1 = <<>>
    /\ child_2 = <<>>
    /\ GaLocalsIdle
    /\ mutation_probability = 0
    /\ before_mutation = <<>>

\* lines 250-270, called as on line 534: the returned row is kept in parent_1
SelectIndividualByTournament ==
    /\ ga_pc \in {"tournament", "selected"}
    /\ \E f1, f2 \in RandInt(0, Len(ga_scores) - 1) :
          /\ fighter_1' = f1
          /\ fighter_2' = f2
          /\ winner' = TournamentWinner(ga_scores, f1, f2)
          /\ parent_1' = SelectedRow(population, ga_scores, f1, f2)
    /\ ga_pc' = "selected"
    /\ UNCHANGED <<chromosome_length, ga_population_size, maximum_generation,
                   reference, population, ga_scores, generation, new_population,
                   ga_i, parent_2, child_1, child_2, crossover_point,
                   mutation_probability, before_mutation>>
    /\ UNCHANGED non_ga_vars

NextTournament == SelectIndividualByTournament

SpecTournament == InitTournament /\ [][NextTournament]_vars

\* ---- breed_by_crossover on its own ----

InitCrossover ==
    /\ ParetoIdle
    /\ JobIdle
    /\ ClfIdle
    /\ RlIdle
    /\ chromosome_length \in 2..MaxParentLength
    /\ ga_population_size = 0
    /\ maximum_generation = 0
    /\ reference = <<>>
    /\ population = <<>>
    /\ ga_scores = <<>>
    /\ generation = 0
    /\ new_population = <<>>
    /\ ga_i = 0
    /\ ga_pc = "crossover"
    /\ parent_1 \in Rows(chromosome_length)
    /\ parent_2 \in Rows(chromosome_length)
    /\ child_1 = <<>>
    /\ child_2 = <<>>
    /\ GaLocalsIdle
    /\ mutation_probability = 0
    /\ before_mutation = <<>>

\* lines 324-339, called as on line 535
BreedByCrossover ==
    /\ ga_pc = "crossover"
    /\ crossover_point' \in CrossoverPoints(Len(parent_1))
    /\ child_1' = Child(parent_1, parent_2, crossover_point')
    /\ child_2' = Child(parent_2, parent_1, crossover_point')
    /\ ga_pc' = "bred"
    /\ UNCHANGED <<chromosome_length, ga_population_size, maximum_generation,
                   reference, population, ga_scores, generation, new_population,
                   ga_i, parent_1, parent_2, fighter_1, fighter_2, winner,
                   mutation_probability, before_mutation>>
    /\ UNCHANGED non_ga_vars

NextCrossover == BreedByCrossover

SpecCrossover == InitCrossover /\ [][NextCrossover]_vars

\* ---- randomly_mutate_population on its own ----

\* mutation_probability = 0.25 of the test cell
TestMutationProbability == 250

\* the mutation probabilities tried: none, the loop's, the test cell's, all
Rates == {0, MutationRate, TestMutationProbability, Scale}

InitMutation ==
    /\ ParetoIdle
    /\ JobIdle
    /\ ClfIdle
    /\ RlIdle
    /\ chromosome_length \in 2..MaxChromosome
    /\ ga_population_size \in 1..MaxMutationRows
    /\ maximum_generation = 0
    /\ reference = <<>>
    /\ population \in [1..ga_population_size -> Rows(chromosome_length)]
    /\ ga_scores = <<>>
    /\ generation = 0
    /\ new_population = <<>>
    /\ ga_i = 0
    /\ ga_pc = "mutate"
    /\ parent_1 = <<>>
    /\ parent_2 = <<>>
    /\ child_1 = <<>>
    /\ child_2 = <<>>
    /\ GaLocalsIdle
    /\ mutation_probability \in Rates
    /\ before_mutation = <<>>

\* lines 406-419, called as on line 465: the population is replaced by the
\* returned (same) array
RandomlyMutatePopulation ==
    /\ ga_pc = "mutate"
    /\ before_mutation' = population
    /\ \E rnd \in RandomArrays(population) :
          population' = Mutated(population, MutationMask(rnd, mutation_probability))
    /\ ga_pc' = "mutated"
    /\ UNCHANGED <<chromosome_length, ga_population_size, maximum_generation,
                   reference, ga_scores, generation, new_population, ga_i,
                   parent_1, parent_2, child_1, child_2, crossover_point,
                   fighter_1, fighter_2, winner, mutation_probability>>
    /\ UNCHANGED non_ga_vars

NextMutation == RandomlyMutatePopulation

SpecMutation == InitMutation /\ [][NextMutation]_vars

\* ---- the parallel-processing notebook ----

\* range(8) of both cells
NumTasks == 8

\* my_slow_function, without its sleep
MySlowFunction(x) == x * 2

\* the list Parallel returns: the tasks' results in the order the tasks were
\* submitted, whatever the order they finished in
GatherAsCompleted(results, order) ==
    [k \in 1..Len(results) |-> results[order[k] + 1][1]]
Gather(results, order) ==
    [k \in 1..Len(results) |-> results[k][1]]

InitJob ==
    /\ ParetoIdle
    /\ GaIdle
    /\ ClfIdle
    /\ RlIdle
    /\ seq_output = <<>>
    /\ seq_i = 0
    /\ task_state = <<>>
    /\ task_result = <<>>
    /\ completed = <<>>
    /\ par_output = <<>>
    /\ job_pc = "sequential"

\* one element of [my_slow_function(i) for i in range(8)]
SeqStep ==
    /\ job_pc = "sequential"
    /\ InRange(seq_i, NumTasks)
    /\ seq_output' = Append(seq_output, MySlowFunction(seq_i))
    /\ seq_i' = seq_i + 1
    /\ UNCHANGED <<task_state, task_result, completed, par_output, job_pc>>
    /\ UNCHANGED non_job_vars

\* the list comprehension is exhausted; the Parallel cell submits one task per
\* element of range(8)
ParallelCall ==
    /\ job_pc = "sequential"
    /\ ~InRange(seq_i, NumTasks)
    /\ task_state' = [k \in 1..NumTasks |-> "pending"]
    /\ task_result' = [k \in 1..NumTasks |-> <<>>]
    /\ completed' = <<>>
    /\ job_pc' = "parallel"
    /\ UNCHANGED <<seq_output, seq_i, par_output>>
    /\ UNCHANGED non_job_vars

\* a worker picks up task k
TaskStart(k) ==
    /\ job_pc = "parallel"
    /\ task_state[k + 1] = "pending"
    /\ task_state' = [task_state EXCEPT ![k + 1] = "running"]
    /\ UNCHANGED <<seq_output, seq_i, task_result, completed, par_output, job_pc>>
    /\ UNCHANGED non_job_vars

\* the worker of task k returns my_slow_function(k)
TaskFinish(k) ==
    /\ job_pc = "parallel"
    /\ task_state[k + 1] = "running"
    /\ task_state' = [task_state EXCEPT ![k + 1] = "finished"]
    /\ task_result' = [task_result EXCEPT ![k + 1] = <<MySlowFunction(k)>>]
    /\ completed' = Append(completed, k)
    /\ UNCHANGED <<seq_output, seq_i, par_output, job_pc>>
    /\ UNCHANGED non_job_vars

\* every task has finished: Parallel returns the list of results
ParallelReturn ==
    /\ job_pc = "parallel"
    /\ \A k \in 1..NumTasks : task_state[k] = "finished"
    /\ par_output' = Gather(task_result, completed)
    /\ job_pc' = "done"
    /\ UNCHANGED <<seq_output, seq_i, task_state, task_result, completed>>
    /\ UNCHANGED non_job_vars

NextJob ==
    \/ SeqStep
    \/ ParallelCall
    \/ \E k \in 0..(NumTasks - 1) : TaskStart(k)
    \/ \E k \in 0..(NumTasks - 1) : TaskFinish(k)
    \/ ParallelReturn

SpecJob == InitJob /\ [][NextJob]_vars

\* ---- the logistic-regression notebook: classification thresholds ----

\* the levels of [0, 1] that probabilities and thresholds are drawn from, in
\* their order as floats
Levels == 0..MaxLevel

\* one row of model.predict_proba(X): the probabilities of class 0 and class 1
ProbaRow(p) == <<MaxLevel - p, p>>

\* probabilities[:,1]
PositiveColumn(probabilities) ==
    [k \in 1..Len(probabilities) |-> probabilities[k][2]]

\* classify_with_threshold, lines 785-788
ClassifyBelowThreshold(probabilities, threshold) ==
    [k \in 1..Len(probabilities) |-> PositiveColumn(probabilities)[k] <= threshold]
ClassifyWithThreshold(probabilities, threshold) ==
    [k \in 1..Len(probabilities) |-> PositiveColumn(probabilities)[k] >= threshold]

\* a Python bool compared with or summed as a number
BoolAsInt(b) == IF b THEN 1 ELSE 0

\* np.sum of a boolean array
SumTrue(v) == Cardinality({ k \in 1..Len(v) : v[k] })

\* a quotient of two counts, kept as numerator and denominator
Quotient(n, dn) == [num |-> n, den |-> dn]

\* calculate_accuracy, lines 473-497; observed holds the labels 0 and 1,
\* predicted the booleans returned by classify_with_threshold
CalculateAccuracy(observed, predicted) ==
    LET size == Len(observed)
        agree == [k \in 1..size |-> observed[k] = BoolAsInt(predicted[k])]
        observed_positives == [k \in 1..size |-> observed[k] = 1]
        observed_negatives == [k \in 1..size |-> observed[k] = 0]
        predicted_positives == [k \in 1..size |-> BoolAsInt(predicted[k]) = 1]
        predicted_negatives == [k \in 1..size |-> BoolAsInt(predicted[k]) = 0]
        true_positives ==
            [k \in 1..size |-> predicted_positives[k] /\ observed_positives[k]]
        true_negatives ==
            [k \in 1..size |-> predicted_negatives[k] /\ observed_negatives[k]]
    IN [accuracy |-> Quotient(SumTrue(agree), size),
        sensitivity |-> Quotient(SumTrue(true_positives), SumTrue(observed_positives)),
        specificity |-> Quotient(SumTrue(true_negatives), SumTrue(observed_negatives))]

\* a fitted model's probabilities on a test set, the test labels, and two
\* thresholds to classify with
InitThreshold ==
    /\ ParetoIdle
    /\ GaIdle
    /\ JobIdle
    /\ RlIdle
    /\ \E size \in 1..MaxSamples :
          \E p \in [1..size -> Levels], y \in [1..size -> {0, 1}],
             t \in [1..2 -> Levels] :
                clf = [pc |-> "loop",
                       probabilities |-> [k \in 1..size |-> ProbaRow(p[k])],
                       y_test |-> y,
                       thresholds |-> t,
                       y_pred_test |-> <<>>,
                       results |-> <<>>]

\* one pass of the loop over the thresholds: classify, then score; the
\* predictions and the results of every pass are kept
ClassifyAndScore ==
    /\ clf.pc = "loop"
    /\ Len(clf.results) < Len(clf.thresholds)
    /\ LET threshold == clf.thresholds[Len(clf.results) + 1]
           predicted == ClassifyWithThreshold(clf.probabilities, threshold)
       IN clf' = [clf EXCEPT
                     !.y_pred_test = Append(@, predicted),
                     !.results = Append(@, CalculateAccuracy(clf.y_test, predicted))]
    /\ UNCHANGED non_clf_vars

\* the list of thresholds is exhausted
ThresholdsDone ==
    /\ clf.pc = "loop"
    /\ Len(clf.results) = Len(clf.thresholds)
    /\ clf' = [clf EXCEPT !.pc = "done"]
    /\ UNCHANGED non_clf_vars

NextThreshold == ClassifyAndScore \/ ThresholdsDone

SpecThreshold == InitThreshold /\ [][NextThreshold]_vars

\* ---- the reinforcement-learning notebook: main() ----

TRAINING_EPISODES == 25

episode_batch_size == 10

\* main() before its while loop.  batch_results is kept as the number of
\* episode results appended, steps as the number of observations (and
\* actions) tracked by the running episode; filtered and trained count the
\* calls of filter_episodes and of optimizer.step()
InitMain ==
    /\ ParetoIdle
    /\ GaIdle
    /\ JobIdle
    /\ ClfIdle
    /\ rl = [pc |-> "while", batch_count |-> 0, batch_results |-> 0,
             steps |-> 0, filtered |-> 0, trained |-> 0]

\* top of the while loop: batch_count += 1; batch_results = []
BatchBegin ==
    /\ rl.pc = "while"
    /\ rl' = [rl EXCEPT !.pc = "for", !.batch_count = @ + 1, !.batch_results = 0]
    /\ UNCHANGED non_rl_vars

\* for episode in range(episode_batch_size): play_episode is called and
\* resets its trackers
PlayEpisode ==
    /\ rl.pc = "for"
    /\ rl.batch_results < episode_batch_size
    /\ rl' = [rl EXCEPT !.pc = "episode", !.steps = 0]
    /\ UNCHANGED non_rl_vars

\* one pass of play_episode's loop in which sim.step answers done = False
EpisodeStep ==
    /\ rl.pc = "episode"
    /\ rl.steps + 1 < MaxEpisodeSteps
    /\ rl' = [rl EXCEPT !.steps = @ + 1]
    /\ UNCHANGED non_rl_vars

\* the pass in which sim.step answers done = True: play_episode returns and
\* its results are appended to batch_results
EpisodeDone ==
    /\ rl.pc = "episode"
    /\ rl' = [rl EXCEPT !.pc = "for", !.steps = @ + 1, !.batch_results = @ + 1]
    /\ UNCHANGED non_rl_vars

\* if batch_count >= TRAINING_EPISODES
GoalReachedLate == rl.batch_count > TRAINING_EPISODES
GoalReached == rl.batch_count >= TRAINING_EPISODES

\* the for loop is exhausted, the rewards are stored and the goal is reached:
\* break, then plot_results
Break ==
    /\ rl.pc = "for"
    /\ rl.batch_results = episode_batch_size
    /\ GoalReached
    /\ rl' = [rl EXCEPT !.pc = "done"]
    /\ UNCHANGED non_rl_vars

\* the goal is not reached: filter_episodes(batch_results)
SelectBest ==
    /\ rl.pc = "for"
    /\ rl.batch_results = episode_batch_size
    /\ ~GoalReached
    /\ rl' = [rl EXCEPT !.pc = "train", !.filtered = @ + 1]
    /\ UNCHANGED non_rl_vars

\* zero_grad, forward pass, loss, backward, optimizer.step(); back to the top
\* of the while loop
Train ==
    /\ rl.pc = "train"
    /\ rl' = [rl EXCEPT !.pc = "while", !.trained = @ + 1]
    /\ UNCHANGED non_rl_vars

NextMain ==
    \/ BatchBegin
    \/ PlayEpisode
    \/ EpisodeStep
    \/ EpisodeDone
    \/ Break
    \/ SelectBest
    \/ Train

SpecMain == InitMain /\ [][NextMain]_vars

\* the interpreter keeps running main(), and the environment ends every
\* episode within MaxEpisodeSteps steps
SpecMainFair == SpecMain /\ WF_vars(NextMain)

\* ---- the reinforcement-learning notebook: filter_episodes ----

\* the actions an episode can record
Actions == {0, 1}

\* the cutoffs filter_episodes is called with, in percent
Percentiles == 0..100

\* s with x put before its first element greater than x
InsertSorted(x, s) ==
    LET before == SelectSeq(s, LAMBDA y : y <= x)
        after == SelectSeq(s, LAMBDA y : y > x)
    IN before \o <<x>> \o after

\* the values of a in ascending order
RECURSIVE Sorted(_)
Sorted(a) == IF a = <<>> THEN <<>> ELSE InsertSorted(Head(a), Sorted(Tail(a)))

\* np.percentile(a, q) with numpy's linear interpolation, times 100: the
\* virtual index (n - 1) * q / 100 falls between two neighbours of the sorted
\* values, and the result lies between them in proportion to its fraction
Percentile100(a, q) ==
    LET sorted == Sorted(a)
        position100 == (Len(a) - 1) * q
        below == position100 \div 100
        fraction100 == position100 % 100
        above == IF below + 1 < Len(a) THEN below + 1 ELSE below
    IN 100 * sorted[below + 1] + fraction100 * (sorted[above + 1] - sorted[below + 1])

\* [episode for episode in results if episode['episode_reward'] >= reward_cutoff]
BestEpisodesAbove(results, reward_cutoff100) ==
    SelectSeq(results, LAMBDA episode : 100 * episode.episode_reward > reward_cutoff100)
BestEpisodes(results, reward_cutoff100) ==
    SelectSeq(results, LAMBDA episode : 100 * episode.episode_reward >= reward_cutoff100)

\* the rows (or items) of every list of a list, in order
RECURSIVE Flatten(_)
Flatten(lists) == IF lists = <<>> THEN <<>> ELSE Head(lists) \o Flatten(Tail(lists))

\* the number of steps of the first e episodes of a batch with these lengths
RECURSIVE StepsBefore(_, _)
StepsBefore(lengths, e) ==
    IF e = 0 THEN 0 ELSE StepsBefore(lengths, e - 1) + lengths[e]

\* what play_episode returns for episode e: its reward, and one observation
\* and one action for each of its steps.  An observation is an opaque row to
\* filter_episodes; here it names the episode and the step that recorded it
EpisodeResults(e, reward, length, acts, offset) ==
    [episode_reward |-> reward,
     episode_obs |-> [k \in 1..length |-> <<e, k>>],
     episode_actions |-> [k \in 1..length |-> acts[offset + k]]]

\* a non-empty batch of finished episodes, about to be filtered
InitFilter ==
    /\ ParetoIdle
    /\ GaIdle
    /\ JobIdle
    /\ ClfIdle
    /\ \E size \in 1..MaxBatchSteps :
          \E lengths \in [1..size -> 1..MaxBatchSteps] :
             /\ StepsBefore(lengths, size) <= MaxBatchSteps
             /\ \E rewards \in [1..size -> 0..MaxEpisodeReward],
                   acts \in [1..StepsBefore(lengths, size) -> Actions] :
                      rl = [pc |-> "call",
                            results |-> [e \in 1..size |->
                                EpisodeResults(e, rewards[e], lengths[e], acts,
                                               StepsBefore(lengths, e - 1))]]

\* filter_episodes(results, percentile_cutoff); np.vstack raises ValueError
\* when it is given no arrays
FilterEpisodes ==
    /\ rl.pc = "call"
    /\ \E percentile_cutoff \in Percentiles :
          LET episode_rewards ==
                  [e \in 1..Len(rl.results) |-> rl.results[e].episode_reward]
              reward_cutoff100 == Percentile100(episode_rewards, percentile_cutoff)
              best == BestEpisodes(rl.results, reward_cutoff100)
              obs == [e \in 1..Len(best) |-> best[e].episode_obs]
              actions == [e \in 1..Len(best) |-> best[e].episode_actions]
          IN rl' = IF obs = <<>>
                   THEN [pc |-> "ValueError",
                         results |-> rl.results,
                         percentile_cutoff |-> percentile_cutoff,
                         reward_cutoff100 |-> reward_cutoff100,
                         obs |-> <<>>,
                         actions |-> <<>>]
                   ELSE [pc |-> "returned",
                         results |-> rl.results,
                         percentile_cutoff |-> percentile_cutoff,
                         reward_cutoff100 |-> reward_cutoff100,
                         obs |-> Flatten(obs),
                         actions |-> Flatten(actions)]
    /\ UNCHANGED non_rl_vars

NextFilter == FilterEpisodes

SpecFilter == InitFilter /\ [][NextFilter]_vars

\* ---- vocabulary of the properties ----

\* number of candidates of the table
N == Len(scores)

\* the set of indices returned by the call
Front == { result[k] : k \in 1..Len(result) }

\* the set of indices returned by the call on the table before it was permuted
FirstFront == { first_result[k] : k \in 1..Len(first_result) }

\* the call has returned normally
Returned == pc = "done" /\ outcome = "returned"

\* the score vector of candidate k (zero based)
RowOf(k) == scores[k + 1]

\* the dominance relation of the data model: a is at least as good as b in
\* every objective and strictly better in at least one
StrictlyBetter(a, b) ==
    /\ \A k \in 1..Len(a) : a[k] >= b[k]
    /\ \E k \in 1..Len(a) : a[k] > b[k]

\* candidate k is dominated by some candidate of the table
IsDominated(k) == \E h \in 0..(N - 1) : h # k /\ StrictlyBetter(RowOf(h), RowOf(k))

\* the largest score of objective column c
ColumnMax(c) == CHOOSE v \in { RowOf(k)[c] : k \in 0..(N - 1) } :
                    \A k \in 0..(N - 1) : RowOf(k)[c] <= v

\* the objective columns of a non-empty table
Columns == 1..Len(scores[1])

\* ---- properties ----

\* C1 (soundness): no index of the returned front is dominated by another
\* candidate of the table.
PF_Sound ==
    Returned => \A a \in Front : ~IsDominated(a)

PF_Sound_Witness ==
    /\ Returned
    /\ \E a \in Front : \E b \in 0..(N - 1) : b \notin Front

\* C2 (completeness): every index that is not returned is dominated by some
\* candidate of the table.
PF_Complete ==
    Returned => \A a \in 0..(N - 1) : a \notin Front => IsDominated(a)

PF_Complete_Witness ==
    /\ Returned
    /\ N = MaxN
    /\ Cardinality(Front) = 1

\* C3 as stated: every candidate whose score in some column equals the column
\* maximum is in the returned front.
PF_EveryColumnMaxOnFront ==
    (Returned /\ N >= 1) =>
        \A c \in Columns : \A a \in 0..(N - 1) :
            RowOf(a)[c] = ColumnMax(c) => a \in Front

\* C3 (amended): for every objective column, at least one of the candidates
\* whose score in that column equals the column maximum is in the returned
\* front.
PF_SomeColumnMaxOnFront ==
    (Returned /\ N >= 1) =>
        \A c \in Columns : \E a \in Front : RowOf(a)[c] = ColumnMax(c)

PF_SomeColumnMaxOnFront_Witness ==
    /\ Returned
    /\ N >= 2
    /\ \E c \in Columns : \E a \in 0..(N - 1) :
          RowOf(a)[c] = ColumnMax(c) /\ a \notin Front

\* C4 as stated: two candidates at different indices with identical score
\* vectors are always both in the returned front.
PF_DuplicatesAlwaysOnFront ==
    Returned =>
        \A a, b \in 0..(N - 1) :
            (a # b /\ RowOf(a) = RowOf(b)) => (a \in Front /\ b \in Front)

\* C4 (amended): two candidates at different indices with identical score
\* vectors that no candidate of the table dominates are both in the returned
\* front; a duplicate is never eliminated by its duplicate.
PF_UndominatedDuplicatesOnFront ==
    Returned =>
        \A a, b \in 0..(N - 1) :
            (a # b /\ RowOf(a) = RowOf(b) /\ ~IsDominated(a))
                => (a \in Front /\ b \in Front)

PF_UndominatedDuplicatesOnFront_Witness ==
    /\ Returned
    /\ \E a, b \in Front : a # b /\ RowOf(a) = RowOf(b)
    /\ \E h \in 0..(N - 1) : h \notin Front

\* C5 (non-emptiness): for a table with at least one candidate the returned
\* front has at least one index.
PF_NonEmpty ==
    (Returned /\ N >= 1) => Front # {}

PF_NonEmpty_Witness ==
    /\ Returned
    /\ N >= 2
    /\ Cardinality(Front) = N - 1

\* C6 (order invariance): the front returned on the permuted table is exactly
\* the image under the permutation of the front returned on the original one.
PF_OrderInvariant ==
    (Returned /\ run = 2) => Front = { perm[x] : x \in FirstFront }

PF_OrderInvariant_Witness ==
    /\ Returned
    /\ run = 2
    /\ \E x \in DOMAIN perm : perm[x] # x
    /\ Front # FirstFront
    /\ Front # {}

\* C7 (worked example): on the notebook's 30-row table the function returns
\* exactly the indices 0, 1, 3, 4, 6, 7, 8, 9, 10.
PF_WorkedExample ==
    (pc = "done" /\ scores = ExampleScores) =>
        (outcome = "returned" /\ result = <<0, 1, 3, 4, 6, 7, 8, 9, 10>>)

PF_WorkedExample_Witness ==
    /\ pc = "done"
    /\ scores = ExampleScores
    /\ Len(result) = 9

\* C8 as stated: a call on a table with zero candidates ends in an
\* InvalidInput error.
PF_EmptyRejected ==
    (pc = "done" /\ N = 0) => outcome = "InvalidInput"

\* C8 (amended): a call on a table with zero candidates raises no error; it
\* returns normally with an empty front.
PF_EmptyReturnsEmpty ==
    (pc = "done" /\ N = 0) => (outcome = "returned" /\ result = <<>>)

PF_EmptyReturnsEmpty_Witness ==
    /\ pc = "done"
    /\ N = 0
    /\ population_ids = <<>>
    /\ outcome # "none"

\* C9 (shape of the result): the returned sequence is strictly ascending and
\* each of its elements is a row index in 0..N-1.
PF_Shape ==
    Returned =>
        /\ \A k \in 1..Len(result) : result[k] \in 0..(N - 1)
        /\ \A k \in 1..(Len(result) - 1) : result[k] < result[k + 1]

PF_Shape_Witness ==
    /\ Returned
    /\ Len(result) >= 2
    /\ Len(result) < N

\* C10 (all-identical input): when every candidate has the same score vector
\* the function returns all indices 0..N-1.
PF_AllIdentical ==
    (Returned /\ N >= 1 /\ \A a \in 0..(N - 1) : RowOf(a) = RowOf(0))
        => result = [k \in 1..N |-> k - 1]

PF_AllIdentical_Witness ==
    /\ Returned
    /\ N >= 2
    /\ \A a \in 0..(N - 1) : RowOf(a) = RowOf(0)
    /\ Len(result) = N

\* C11 (pure function): no step of a call changes the input score table, and
\* after the set-up no step changes the item count or the index array; of the
\* arrays only the local membership flags are written.
PF_InputUnchanged ==
    [][ /\ scores' = scores
        /\ pc # "call" => /\ population_size' = population_size
                          /\ population_ids' = population_ids ]_vars

PF_InputUnchanged_Witness ==
    /\ Returned
    /\ N >= 2
    /\ \E k \in 1..Len(pareto_front) : ~pareto_front[k]
    /\ \E k \in 1..Len(pareto_front) : pareto_front[k]

\* C12 (strict partial order): on the score vectors of the table of a finished
\* call the test of line 122 is irreflexive, asymmetric and transitive.
PF_DominanceStrictOrder ==
    pc = "done" =>
        \A a, b, c \in 0..(N - 1) :
            /\ ~Dominates(RowOf(a), RowOf(a))
            /\ Dominates(RowOf(a), RowOf(b)) => ~Dominates(RowOf(b), RowOf(a))
            /\ (Dominates(RowOf(a), RowOf(b)) /\ Dominates(RowOf(b), RowOf(c)))
                   => Dominates(RowOf(a), RowOf(c))

PF_DominanceStrictOrder_Witness ==
    /\ Returned
    /\ \E a, b, c \in 0..(N - 1) :
          /\ Dominates(RowOf(a), RowOf(b))
          /\ Dominates(RowOf(b), RowOf(c))
          /\ b \notin Front
          /\ c \notin Front

\* candidate k has a NaN among its scores
HasNaN(k) == \E c \in 1..Len(RowOf(k)) : RowOf(k)[c] = NaN

\* C14 as stated: a call on a table that contains a NaN ends in an
\* InvalidInput error.
PF_NaNRejected ==
    (pc = "done" /\ \E k \in 0..(N - 1) : HasNaN(k)) => outcome = "InvalidInput"

\* C14 (amended): a call on a table that contains a NaN raises no error; it
\* returns normally, and every candidate with a NaN score is in the returned
\* front, since every comparison with NaN is false.
PF_NaNKeptOnFront ==
    (pc = "done" /\ \E k \in 0..(N - 1) : HasNaN(k)) =>
        /\ outcome = "returned"
        /\ \A k \in 0..(N - 1) : HasNaN(k) => k \in Front

PF_NaNKeptOnFront_Witness ==
    /\ Returned
    /\ N = 2
    /\ \E k, h \in 0..(N - 1) :
          /\ HasNaN(k)
          /\ ~HasNaN(h)
          /\ k \in Front
          /\ \A c \in 1..Len(RowOf(k)) : RowOf(k)[c] = NaN \/ RowOf(h)[c] > RowOf(k)[c]

\* every worker has finished its candidates
AllFinished == w_pc # <<>> /\ \A w \in Workers : w_pc[w] = "finished"

\* C13 (parallel evaluation): under every interleaving of the workers' steps
\* the flag of a candidate is written by no worker other than the one the
\* candidate is assigned to, and when all workers have finished the shared
\* flag array equals the one computed by the sequential call.
PF_ParallelEqualsSequential ==
    /\ w_pc # <<>> =>
          \A k \in 0..(N - 1) : writers[k] \subseteq {owner[k]}
    /\ AllFinished => par_front = pareto_front

PF_ParallelEqualsSequential_Witness ==
    /\ AllFinished
    /\ N = MaxN
    /\ \E k, h \in 0..(N - 1) :
          /\ owner[k] # owner[h]
          /\ writers[k] # {}
          /\ writers[h] # {}
    /\ \E k \in 0..(N - 1) : par_front[k + 1]

\* some individual of the population matches the reference on every gene
TargetMet == \E r \in 1..Len(population) : population[r] = reference

\* C15 (stopping rule): the generation loop ends as soon as the target is
\* reached, so no generation is under way while some individual of the scored
\* population matches the reference on every gene.
GA_StopsAtTarget ==
    ga_pc = "breed" => ~TargetMet

\* C16 (fixed-size population): whenever the generation loop is at its head,
\* the population has exactly population_size individuals of exactly
\* chromosome_length genes each.
GA_FixedSize ==
    ga_pc \in {"loop", "finished"} =>
        /\ Len(population) = ga_population_size
        /\ \A r \in 1..Len(population) : Len(population[r]) = chromosome_length

\* C17 (tournament selection): the returned row is the population's row of the
\* winner, the winner is one of the two fighters, its fitness is at least the
\* fitness of both fighters, and on equal fitness the winner is fighter 1.
GA_TournamentWinner ==
    ga_pc = "selected" =>
        /\ winner \in {fighter_1, fighter_2}
        /\ winner + 1 \in 1..Len(population)
        /\ parent_1 = population[winner + 1]
        /\ ga_scores[winner + 1] >= ga_scores[fighter_1 + 1]
        /\ ga_scores[winner + 1] >= ga_scores[fighter_2 + 1]
        /\ (ga_scores[fighter_1 + 1] = ga_scores[fighter_2 + 1] => winner = fighter_1)

\* two different fighters with different chromosomes and equal fitness
GA_TournamentWinner_Witness ==
    /\ ga_pc = "selected"
    /\ fighter_1 # fighter_2
    /\ ga_scores[fighter_1 + 1] = ga_scores[fighter_2 + 1]
    /\ population[fighter_1 + 1] # population[fighter_2 + 1]
    /\ parent_1 = population[fighter_1 + 1]

\* C18 (single-point crossover): the crossover point c lies in 1..L-1, child_1
\* is parent_1's first c genes followed by parent_2's genes from c on, child_2
\* the other way round, both children have length L, each child has a position
\* from each parent, and at every position the children's genes are the
\* parents' genes in one of the two orders.
GA_SinglePointCrossover ==
    ga_pc = "bred" =>
        LET len == Len(parent_1)
            c == crossover_point
        IN /\ c >= 1
           /\ c <= len - 1
           /\ Len(child_1) = len
           /\ Len(child_2) = len
           /\ \A k \in 1..len :
                 /\ child_1[k] = (IF k <= c THEN parent_1[k] ELSE parent_2[k])
                 /\ child_2[k] = (IF k <= c THEN parent_2[k] ELSE parent_1[k])
                 /\ \/ <<child_1[k], child_2[k]>> = <<parent_1[k], parent_2[k]>>
                    \/ <<child_1[k], child_2[k]>> = <<parent_2[k], parent_1[k]>>
           /\ \E k \in 1..len : k <= c
           /\ \E k \in 1..len : k > c

\* parents that differ on both sides of the crossover point, so that both
\* children differ from both parents
GA_SinglePointCrossover_Witness ==
    /\ ga_pc = "bred"
    /\ Len(parent_1) = 3
    /\ crossover_point = 2
    /\ child_1 \notin {parent_1, parent_2}
    /\ child_2 \notin {parent_1, parent_2}

\* C19 (mutation at rate 1.0): with mutation_probability 1.0 the mutated
\* population has the shape of the one passed in and every gene is inverted.
GA_FullMutationInvertsAll ==
    (ga_pc = "mutated" /\ mutation_probability = Scale) =>
        /\ Len(population) = Len(before_mutation)
        /\ \A r \in 1..Len(before_mutation) :
              /\ Len(population[r]) = Len(before_mutation[r])
              /\ \A c \in 1..Len(before_mutation[r]) :
                    /\ before_mutation[r][c] = 0 => population[r][c] = 1
                    /\ before_mutation[r][c] = 1 => population[r][c] = 0

\* a population with both gene values mutated at rate 1.0
GA_FullMutationInvertsAll_Witness ==
    /\ ga_pc = "mutated"
    /\ mutation_probability = Scale
    /\ Len(before_mutation) = 2
    /\ before_mutation[1] = <<0, 1>>
    /\ population[1] = <<1, 0>>

ReferenceFlags(s) ==
    [k \in 1..Len(s) |->
        ~(\E h \in 1..Len(s) : h # k /\ StrictlyBetter(s[h], s[k]))]

\* C23 (short-circuit equivalence): when the call returns, the flags left by
\* the code's loops, which also compare a candidate with itself and stop at the
\* first dominator, equal the flags of the exhaustive comparison of every
\* candidate with every other candidate.
PF_ShortCircuitEquivalent ==
    Returned => pareto_front = ReferenceFlags(scores)

\* a candidate with two dominators, so that the inner loop stopped before the
\* second one, and a kept candidate that was compared with itself on the way
PF_ShortCircuitEquivalent_Witness ==
    /\ Returned
    /\ \E a, g, h \in 0..(N - 1) :
          /\ g < h
          /\ StrictlyBetter(RowOf(g), RowOf(a))
          /\ StrictlyBetter(RowOf(h), RowOf(a))
          /\ ~pareto_front[a + 1]
    /\ \E k \in Front : k < N - 1

\* C25 (dominator on the front): every candidate that is not returned is
\* dominated by a candidate that is returned.
PF_ExcludedHasFrontDominator ==
    Returned =>
        \A a \in 0..(N - 1) :
            a \notin Front => \E h \in Front : StrictlyBetter(RowOf(h), RowOf(a))

\* an excluded candidate one of whose dominators is itself excluded
PF_ExcludedHasFrontDominator_Witness ==
    /\ Returned
    /\ \E a, h \in 0..(N - 1) :
          /\ a \notin Front
          /\ h \notin Front
          /\ StrictlyBetter(RowOf(h), RowOf(a))

\* C26 (duplicates share their fate): of two candidates with identical score
\* vectors either both are returned or neither is.
PF_DuplicatesShareFate ==
    Returned =>
        \A a, b \in 0..(N - 1) :
            RowOf(a) = RowOf(b) => (a \in Front <=> b \in Front)

\* two identical candidates, both excluded, beside a returned one
PF_DuplicatesShareFate_Witness ==
    /\ Returned
    /\ \E a, b \in 0..(N - 1) :
          /\ a # b
          /\ RowOf(a) = RowOf(b)
          /\ a \notin Front
          /\ b \notin Front
    /\ Front # {}

\* C28 (single objective): on a table with one column the returned array lists,
\* in ascending order, exactly the indices whose score is the column maximum.
PF_SingleObjectiveMaxima ==
    (Returned /\ N >= 1 /\ Len(scores[1]) = 1) =>
        /\ Front = { k \in 0..(N - 1) : RowOf(k)[1] = ColumnMax(1) }
        /\ \A a, b \in 1..Len(result) : a < b => result[a] < result[b]
        /\ Len(result) = Cardinality(Front)

\* one column, the maximum reached twice and one candidate below it
PF_SingleObjectiveMaxima_Witness ==
    /\ Returned
    /\ N = 3
    /\ Len(scores[1]) = 1
    /\ Len(result) = 2
    /\ \E k \in 0..(N - 1) : k \notin Front /\ k < result[2]

\* the step of lines 122-126 in which the flag is written and the inner loop
\* is left
BreakStep == pc = "inner" /\ pc' = "outer" /\ j < population_size

\* C24 (flag monotonicity): the initialisation sets every flag; after it the
\* flag array keeps its length, a flag changes only from set to cleared and
\* only at the outer index i, the write of a break lands on a flag that is
\* still set, and a cleared flag stays cleared.
PF_FlagsOnlyCleared ==
    [][ /\ pc = "call" =>
            /\ Len(pareto_front') = Len(scores)
            /\ \A k \in 1..Len(pareto_front') : pareto_front'[k]
        /\ pc # "call" =>
            /\ Len(pareto_front') = Len(pareto_front)
            /\ \A k \in 1..Len(pareto_front) :
                  /\ pareto_front'[k] # pareto_front[k] =>
                        (pareto_front[k] /\ ~pareto_front'[k] /\ k = i + 1)
                  /\ ~pareto_front[k] => ~pareto_front'[k]
            /\ BreakStep => (pareto_front[i + 1] /\ ~pareto_front'[i + 1])
      ]_vars

\* the loop has moved past a cleared flag and past a flag that is still set
PF_FlagsOnlyCleared_Witness ==
    /\ pc = "inner"
    /\ \E k \in 0..(i - 1) : ~pareto_front[k + 1]
    /\ \E k \in 0..(i - 1) : pareto_front[k + 1]
    /\ pareto_front[i + 1]

\* C27 (idempotence): the call on the rows returned by a first call returns
\* every index of that sub-table.
PF_Idempotent ==
    (Returned /\ run = 2) =>
        /\ N = Len(first_result)
        /\ result = [k \in 1..N |-> k - 1]

\* the first call excluded a candidate and returned at least two
PF_Idempotent_Witness ==
    /\ Returned
    /\ run = 2
    /\ N >= 2
    /\ \E k \in 1..Len(first_result) : first_result[k] # k - 1

\* every gene of every row of a population is 0 or 1
BinaryRows(pop) ==
    \A r \in 1..Len(pop) : \A c \in 1..Len(pop[r]) : pop[r][c] \in {0, 1}

\* C29 (binary genes, bounded fitness): once the starting population exists,
\* every gene of the population and of the children bred so far is 0 or 1,
\* there is one score per individual, every score lies in 0..chromosome_length,
\* and a score equals chromosome_length exactly when its individual equals the
\* reference.
GA_BinaryGenesBoundedFitness ==
    ga_pc \in {"loop", "breed", "finished"} =>
        /\ BinaryRows(population)
        /\ BinaryRows(new_population)
        /\ Len(ga_scores) = Len(population)
        /\ \A r \in 1..Len(population) :
              /\ ga_scores[r] \in 0..chromosome_length
              /\ ga_scores[r] = chromosome_length <=> population[r] = reference

\* after a generation in which the mutation changed a gene, one individual
\* equals the reference and another does not
GA_BinaryGenesBoundedFitness_Witness ==
    /\ ga_pc = "loop"
    /\ generation >= 1
    /\ before_mutation # population
    /\ \E r \in 1..Len(population) : population[r] = reference
    /\ \E r \in 1..Len(population) : ga_scores[r] < chromosome_length

\* x >= y for two quotients with positive denominators
QuotientGE(x, y) == x.num * y.den >= y.num * x.den

\* C21 (threshold monotonicity): of two passes with thresholds t1 <= t2 on the
\* same probabilities, every sample positive at t2 is positive at t1; with an
\* observed positive and an observed negative in the test set the sensitivity
\* at t1 is at least that at t2 and the specificity at t1 at most that at t2.
CLF_ThresholdMonotone ==
    clf.pc = "done" =>
        \A a, b \in 1..Len(clf.thresholds) :
            clf.thresholds[a] <= clf.thresholds[b] =>
                /\ \A k \in 1..Len(clf.y_test) :
                      clf.y_pred_test[b][k] => clf.y_pred_test[a][k]
                /\ ((\E k \in 1..Len(clf.y_test) : clf.y_test[k] = 1)
                       /\ (\E k \in 1..Len(clf.y_test) : clf.y_test[k] = 0)) =>
                      /\ QuotientGE(clf.results[a].sensitivity,
                                    clf.results[b].sensitivity)
                      /\ QuotientGE(clf.results[b].specificity,
                                    clf.results[a].specificity)

\* the lower threshold gained a true positive and lost a true negative
CLF_ThresholdMonotone_Witness ==
    /\ clf.pc = "done"
    /\ clf.thresholds[1] < clf.thresholds[2]
    /\ clf.results[1].sensitivity.den > 0
    /\ clf.results[1].specificity.den > 0
    /\ clf.results[1].sensitivity.num > clf.results[2].sensitivity.num
    /\ clf.results[1].specificity.num < clf.results[2].specificity.num

\* a step that calls filter_episodes
Selects == rl'.filtered = rl.filtered + 1

\* a step that trains the net
Trains == rl'.trained = rl.trained + 1

AtLeastCutoff ==
    { e \in 1..Len(rl.results) :
          100 * rl.results[e].episode_reward >= rl.reward_cutoff100 }

\* row x comes before row y in the batch
RowBefore(x, y) == x[1] < y[1] \/ (x[1] = y[1] /\ x[2] < y[2])

\* C30 (best-episode filter): for every non-empty batch and every cutoff in
\* 0..100 filter_episodes returns; every episode with the highest reward is
\* kept; the observations returned are exactly the rows of the episodes whose
\* reward is at least the cutoff reward, in the order of the batch; and there
\* are as many actions as rows, each the action recorded with its row.
RL_FilterKeepsBest ==
    rl.pc # "call" =>
        /\ rl.pc = "returned"
        /\ \A e \in 1..Len(rl.results) :
              (\A f \in 1..Len(rl.results) :
                   rl.results[f].episode_reward <= rl.results[e].episode_reward)
                 => e \in AtLeastCutoff
        /\ { rl.obs[r] : r \in 1..Len(rl.obs) }
              = UNION { { rl.results[e].episode_obs[k] :
                              k \in 1..Len(rl.results[e].episode_obs) } :
                            e \in AtLeastCutoff }
        /\ \A r, s \in 1..Len(rl.obs) : r < s => RowBefore(rl.obs[r], rl.obs[s])
        /\ Len(rl.actions) = Len(rl.obs)
        /\ \A r \in 1..Len(rl.obs) :
              rl.actions[r] = rl.results[rl.obs[r][1]].episode_actions[rl.obs[r][2]]

\* a cutoff interpolated between two rewards dropped an episode and kept a
\* later one of several steps
RL_FilterKeepsBest_Witness ==
    /\ rl.pc = "returned"
    /\ rl.reward_cutoff100 % 100 # 0
    /\ Len(rl.results) > Cardinality(AtLeastCutoff)
    /\ 1 \notin AtLeastCutoff
    /\ Len(rl.obs) > Cardinality(AtLeastCutoff)

====
